---- MODULE Spec2Model ----
(***************************************************************************)
(* Reservation lifecycle and room-availability checking of the hotel       *)
(* back office (ReservationController and the Reservation schema), the     *)
(* front desk's check-in and check-out records (CheckInController,         *)
(* CheckOutController) and the password reset of UserController.           *)
(*                                                                         *)
(* The reservation collection is a sequence; a reservation's _id is its    *)
(* index.  A date is a day number.  An absent request field is the falsy   *)
(* value of its type (0 for an id or a date, "" for a string), which is    *)
(* how the handlers test for it (updateData.roomId || current.roomId).     *)
(***************************************************************************)
EXTENDS Integers, Sequences, FiniteSets, TLC

\* ------------------------------------------------------------------ bounds
MaxRes == 2
MaxDate == 4
NumRooms == 2
MaxCheckIns == 2
NumEmails == 2
NumPasswords == 2
NumTokens == 2
MaxAmount == 2
MaxTasks == 2
NumStaff == 2
NumSkus == 3
MaxQuantity == 2
MaxListeners == 3
MaxUsers == 3

\* The clock read by `new Date()` in the checkInDate validator; it stands
\* still for the length of a run.
Now == 1

Rooms == 1..NumRooms
Dates == Now..MaxDate

\* ------------------------------------------------------ types/models (enum)
ReservationStatus ==
  {"pending", "confirmed", "checked_in", "checked_out", "cancelled", "no_show"}

\* Values a request can carry in a status field: the enum's, the hyphenated
\* spellings the controller uses, and one that is neither.
StatusInputs == ReservationStatus \cup {"checked-in", "checked-out", "no-show", "bogus"}

\* Types.ObjectId.isValid: a well-formed id is a positive number here.
IsValidObjectId(id) == id > 0

\* An absent amount (0 is an amount).
NoAmount == -1

Amounts == 0..MaxAmount

\* A request without body fields.
NoReq ==
  [roomId |-> 0, checkInDate |-> 0, checkOutDate |-> 0, status |-> "",
   totalAmount |-> NoAmount, depositAmount |-> NoAmount]

VARIABLES
  store,     \* the reservations collection: Seq of reservation documents
  resp,      \* the response on its way to the client (NoResponse: none)
  inflight,  \* per concurrent request: where its handler is suspended
  checkIns,  \* the checkins collection: Seq of check-in documents
  checkOuts, \* the checkouts collection: Seq of check-out documents
  users,     \* the users collection: Seq of user documents
  resetLog,  \* the 'Password reset token generated' entries of the log
  bills,     \* the bills collection: Seq of bill documents
  tasks,     \* the housekeepingtasks collection: Seq of task documents
  items,     \* the inventoryitems collection: Seq of item documents
  transactions, \* the inventorytransactions collection
  isConnected,  \* DatabaseConnection.isConnected
  readyState,   \* the state of the driver's connection (mongoose.connection)
  listeners,    \* how many times connect() has registered its event handlers
  dbCall,       \* the connect() or disconnect() call that is awaiting the driver
  dbEvent,      \* what happened last to the DatabaseConnection
  issued        \* the user ids of the tokens login has signed

vars ==
  <<store, resp, inflight, checkIns, checkOuts, users, resetLog, bills,
    tasks, items, transactions, isConnected, readyState, listeners, dbCall,
    dbEvent, issued>>

Procs == {1, 2}

Ids == 1..Len(store)

\* A response on its way to the client, with the request it answers: id is
\* the :id of the request, req its body or query, conflict the _id the
\* availability endpoint reports (0 is null).
Response(op, id, code, msg, req) ==
  [op |-> op, id |-> id, code |-> code, msg |-> msg, conflict |-> 0, req |-> req]

NoResponse == Response("none", 0, 0, "", NoReq)

Idle == [pc |-> "idle", body |-> NoReq, code |-> 0, rival |-> FALSE]

Init ==
  /\ store = <<>>
  /\ resp = NoResponse
  /\ inflight = [p \in Procs |-> Idle]
  /\ checkIns = <<>>
  /\ checkOuts = <<>>
  /\ users = <<>>
  /\ resetLog = {}
  /\ bills = <<>>
  /\ tasks = <<>>
  /\ items = <<>>
  /\ transactions = <<>>
  /\ isConnected = FALSE
  /\ readyState = "disconnected"
  /\ listeners = 0
  /\ dbCall = [p \in Procs |-> "none"]
  /\ dbEvent = "none"
  /\ issued = {}

\* ------------------------------------------------- Reservation schema
\* checkInDate validator: value > new Date()
checkInDateValid(value) == value > Now

\* checkOutDate validator on save: value > this.checkInDate
checkOutDateValid(doc) == doc.checkOutDate > doc.checkInDate

\* status: enum Object.values(ReservationStatus)
statusValid(value) == value \in ReservationStatus

\* totalAmount: required, min 0
totalAmountValid(value) == value # NoAmount /\ value >= 0

\* depositAmount validator on save: !value || value <= this.totalAmount
depositAmountValid(doc) ==
  doc.depositAmount = NoAmount \/ doc.depositAmount = 0
    \/ doc.depositAmount <= doc.totalAmount

\* new Reservation(body): status defaults to pending
NewReservation(body) ==
  [roomId |-> body.roomId,
   checkInDate |-> body.checkInDate,
   checkOutDate |-> body.checkOutDate,
   status |-> IF body.status = "" THEN "pending" ELSE body.status,
   totalAmount |-> body.totalAmount,
   depositAmount |-> body.depositAmount]

\* document validation run by save()
ValidateOnSave(doc) ==
  /\ checkInDateValid(doc.checkInDate)
  /\ checkOutDateValid(doc)
  /\ statusValid(doc.status)
  /\ totalAmountValid(doc.totalAmount)
  /\ depositAmountValid(doc)

\* ------------------------------------------------- availability query
ActiveQueryStatuses_WithPending == {"confirmed", "checked-in", "pending"}

\* status: { $in: ['confirmed', 'checked-in'] }
ActiveQueryStatuses == {"confirmed", "checked-in"}

ConflictIds_Contained(roomId, checkIn, checkOut, exclude) ==
  {i \in Ids :
     /\ i # exclude
     /\ store[i].roomId = roomId
     /\ store[i].status \in ActiveQueryStatuses
     /\ store[i].checkInDate >= checkIn
     /\ store[i].checkOutDate <= checkOut}

ConflictIds_NoExclude(roomId, checkIn, checkOut, exclude) ==
  {i \in Ids :
     /\ store[i].roomId = roomId
     /\ store[i].status \in ActiveQueryStatuses
     /\ store[i].checkInDate <= checkOut
     /\ store[i].checkOutDate >= checkIn}

\* The filter shared by the three findOne calls: ids of the documents that
\* match { _id: {$ne: exclude}, roomId, status: {$in: ...},
\*         checkInDate: {$lte: checkOut}, checkOutDate: {$gte: checkIn} }.
ConflictIds(roomId, checkIn, checkOut, exclude) ==
  {i \in Ids :
     /\ i # exclude
     /\ store[i].roomId = roomId
     /\ store[i].status \in ActiveQueryStatuses
     /\ store[i].checkInDate <= checkOut
     /\ store[i].checkOutDate >= checkIn}

\* ------------------------------------------------- handlers
\* Request bodies of POST /reservations.
CreateBodies ==
  [roomId : Rooms, checkInDate : Dates, checkOutDate : Dates \ {Now},
   status : {"", "confirmed", "checked_in", "checked_out", "cancelled", "no_show", "checked-in"},
   totalAmount : {MaxAmount}, depositAmount : {NoAmount}]

createReservation(body) ==
  /\ UNCHANGED inflight
  /\ IF ConflictIds(body.roomId, body.checkInDate, body.checkOutDate, 0) # {}
       THEN /\ resp' = Response("create", 0, 409, "Room is not available", body)
            /\ UNCHANGED store
     ELSE IF ~ValidateOnSave(NewReservation(body))
       THEN /\ resp' = Response("create", 0, 500, "ValidationError", body)
            /\ UNCHANGED store
     ELSE /\ Len(store) < MaxRes
          /\ store' = Append(store, NewReservation(body))
          /\ resp' = Response("create", Len(store) + 1, 201, "created", body)

\* Request bodies of PUT /reservations/:id (0 and "" are absent fields).
UpdatePatches ==
  [roomId : {0} \cup Rooms, checkInDate : {0} \cup Dates,
   checkOutDate : {0} \cup (Dates \ {Now}),
   status : {"", "confirmed", "checked-in"},
   totalAmount : {NoAmount}, depositAmount : {NoAmount}]

\* a || b on ids and dates
OrElse(a, b) == IF a # 0 THEN a ELSE b

\* Update validators (runValidators: true) run on the paths the update
\* sets, with `this` bound to the query and not to a document: the
\* checkOutDate validator compares against this.checkInDate, which is
\* undefined there, and so rejects every value.
checkOutDateValidOnUpdate(value) == FALSE

\* Likewise this.totalAmount is undefined in the depositAmount validator:
\* !value || value <= undefined accepts 0 only.
depositAmountValidOnUpdate(value) == value = 0

ValidateOnUpdate(patch) ==
  /\ patch.checkInDate # 0 => checkInDateValid(patch.checkInDate)
  /\ patch.checkOutDate # 0 => checkOutDateValidOnUpdate(patch.checkOutDate)
  /\ patch.status # "" => statusValid(patch.status)
  /\ patch.totalAmount # NoAmount => totalAmountValid(patch.totalAmount)
  /\ patch.depositAmount # NoAmount => depositAmountValidOnUpdate(patch.depositAmount)

\* findByIdAndUpdate(id, {$set: patch}): the document with the patch's fields
ApplyPatch(doc, patch) ==
  [roomId |-> OrElse(patch.roomId, doc.roomId),
   checkInDate |-> OrElse(patch.checkInDate, doc.checkInDate),
   checkOutDate |-> OrElse(patch.checkOutDate, doc.checkOutDate),
   status |-> IF patch.status # "" THEN patch.status ELSE doc.status,
   totalAmount |-> IF patch.totalAmount # NoAmount THEN patch.totalAmount ELSE doc.totalAmount,
   depositAmount |-> IF patch.depositAmount # NoAmount THEN patch.depositAmount ELSE doc.depositAmount]

\* The availability guard of updateReservation: "notfound", "conflict" or "pass".
UpdateGuard(id, patch) ==
  IF patch.roomId # 0 \/ patch.checkInDate # 0 \/ patch.checkOutDate # 0
    THEN IF id \notin Ids THEN "notfound"
         ELSE IF ConflictIds(OrElse(patch.roomId, store[id].roomId),
                             OrElse(patch.checkInDate, store[id].checkInDate),
                             OrElse(patch.checkOutDate, store[id].checkOutDate),
                             id) # {}
           THEN "conflict"
         ELSE "pass"
  ELSE "pass"

updateReservation(id, patch) ==
  /\ UNCHANGED inflight
  /\ IF ~IsValidObjectId(id)
       THEN /\ resp' = Response("update", id, 400, "Invalid reservation ID format", patch)
            /\ UNCHANGED store
     ELSE IF UpdateGuard(id, patch) = "notfound"
       THEN /\ resp' = Response("update", id, 404, "Reservation not found", patch)
            /\ UNCHANGED store
     ELSE IF UpdateGuard(id, patch) = "conflict"
       THEN /\ resp' = Response("update", id, 409, "Room is not available", patch)
            /\ UNCHANGED store
     ELSE IF ~ValidateOnUpdate(patch)
       THEN /\ resp' = Response("update", id, 500, "ValidationError", patch)
            /\ UNCHANGED store
     ELSE IF id \notin Ids
       THEN /\ resp' = Response("update", id, 404, "Reservation not found", patch)
            /\ UNCHANGED store
     ELSE /\ store' = [store EXCEPT ![id] = ApplyPatch(store[id], patch)]
          /\ resp' = Response("update", id, 200, "updated", patch)

\* req.query of the availability endpoint
Query(roomId, checkIn, checkOut) ==
  [roomId |-> roomId, checkInDate |-> checkIn, checkOutDate |-> checkOut, status |-> ""]

\* GET /reservations/availability; roomId 0 is a missing parameter and -1 a
\* malformed id.  findOne returns any one matching document.
checkAvailability(roomId, checkIn, checkOut) ==
  /\ UNCHANGED <<store, inflight>>
  /\ IF roomId = 0 \/ checkIn = 0 \/ checkOut = 0
       THEN resp' = Response("availability", 0, 400, "required", Query(roomId, checkIn, checkOut))
     ELSE IF ~IsValidObjectId(roomId)
       THEN resp' = Response("availability", 0, 400, "Invalid room ID format", Query(roomId, checkIn, checkOut))
     ELSE IF ConflictIds(roomId, checkIn, checkOut, 0) = {}
       THEN resp' = Response("availability", 0, 200, "available", Query(roomId, checkIn, checkOut))
     ELSE \E c \in ConflictIds(roomId, checkIn, checkOut, 0) :
            resp' = [Response("availability", 0, 200, "unavailable", Query(roomId, checkIn, checkOut)) EXCEPT !.conflict = c]

confirmReservation_NoStateCheck(id) ==
  /\ UNCHANGED inflight
  /\ IF ~IsValidObjectId(id)
       THEN /\ resp' = Response("confirm", id, 400, "Invalid reservation ID format", NoReq)
            /\ UNCHANGED store
     ELSE IF id \notin Ids
       THEN /\ resp' = Response("confirm", id, 404, "Reservation not found", NoReq)
            /\ UNCHANGED store
     ELSE /\ store' = [store EXCEPT ![id].status = "confirmed"]
          /\ resp' = Response("confirm", id, 200, "confirmed", NoReq)

confirmReservation(id) ==
  /\ UNCHANGED inflight
  /\ IF ~IsValidObjectId(id)
       THEN /\ resp' = Response("confirm", id, 400, "Invalid reservation ID format", NoReq)
            /\ UNCHANGED store
     ELSE IF id \notin Ids
       THEN /\ resp' = Response("confirm", id, 404, "Reservation not found", NoReq)
            /\ UNCHANGED store
     ELSE IF store[id].status # "pending"
       THEN /\ resp' = Response("confirm", id, 400, "Only pending reservations can be confirmed", NoReq)
            /\ UNCHANGED store
     ELSE /\ store' = [store EXCEPT ![id].status = "confirmed"]
          /\ resp' = Response("confirm", id, 200, "confirmed", NoReq)

\* ['cancelled', 'checked-out'].includes(reservation.status)
CancelBlockedStatuses == {"cancelled", "checked-out"}

cancelReservation_FoundAnyway(id) ==
  /\ UNCHANGED inflight
  /\ IF ~IsValidObjectId(id)
       THEN /\ resp' = Response("cancel", id, 400, "Invalid reservation ID format", NoReq)
            /\ UNCHANGED store
     ELSE IF id \notin Ids
       THEN /\ resp' = Response("cancel", id, 200, "cancelled", NoReq)
            /\ UNCHANGED store
     ELSE IF store[id].status \in CancelBlockedStatuses
       THEN /\ resp' = Response("cancel", id, 400, "Reservation is already cancelled or completed", NoReq)
            /\ UNCHANGED store
     ELSE /\ store' = [store EXCEPT ![id].status = "cancelled"]
          /\ resp' = Response("cancel", id, 200, "cancelled", NoReq)

cancelReservation(id) ==
  /\ UNCHANGED inflight
  /\ IF ~IsValidObjectId(id)
       THEN /\ resp' = Response("cancel", id, 400, "Invalid reservation ID format", NoReq)
            /\ UNCHANGED store
     ELSE IF id \notin Ids
       THEN /\ resp' = Response("cancel", id, 404, "Reservation not found", NoReq)
            /\ UNCHANGED store
     ELSE IF store[id].status \in CancelBlockedStatuses
       THEN /\ resp' = Response("cancel", id, 400, "Reservation is already cancelled or completed", NoReq)
            /\ UNCHANGED store
     ELSE /\ store' = [store EXCEPT ![id].status = "cancelled"]
          /\ resp' = Response("cancel", id, 200, "cancelled", NoReq)

\* validStatuses of updateReservationStatus
validStatuses ==
  {"pending", "confirmed", "checked-in", "checked-out", "cancelled", "no-show"}

updateReservationStatus(id, status) ==
  /\ UNCHANGED inflight
  /\ IF ~IsValidObjectId(id)
       THEN /\ resp' = Response("updateStatus", id, 400, "Invalid reservation ID format", [NoReq EXCEPT !.status = status])
            /\ UNCHANGED store
     ELSE IF status \notin validStatuses
       THEN /\ resp' = Response("updateStatus", id, 400, "Invalid status value", [NoReq EXCEPT !.status = status])
            /\ UNCHANGED store
     ELSE IF ~statusValid(status)
       THEN /\ resp' = Response("updateStatus", id, 500, "ValidationError", [NoReq EXCEPT !.status = status])
            /\ UNCHANGED store
     ELSE IF id \notin Ids
       THEN /\ resp' = Response("updateStatus", id, 404, "Reservation not found", [NoReq EXCEPT !.status = status])
            /\ UNCHANGED store
     ELSE /\ store' = [store EXCEPT ![id].status = status]
          /\ resp' = Response("updateStatus", id, 200, "status updated", [NoReq EXCEPT !.status = status])

\* ['cancelled', 'pending'].includes(reservation.status)
DeletableStatuses == {"cancelled", "pending"}

\* The paths deleteReservation sets: isActive, deletionReason, notes and
\* deletedAt.  None is a path of the Reservation schema, and the schema is
\* strict, so the update stores none of them (updatedAt, which it does store,
\* is not part of a document here): the document comes back as it was.
SoftDeleted(doc) == doc

deleteReservation_NoGuard(id) ==
  /\ UNCHANGED inflight
  /\ IF ~IsValidObjectId(id)
       THEN /\ resp' = Response("delete", id, 400, "Invalid reservation ID format", NoReq)
            /\ UNCHANGED store
     ELSE IF id \notin Ids
       THEN /\ resp' = Response("delete", id, 404, "Reservation not found", NoReq)
            /\ UNCHANGED store
     ELSE /\ store' = [store EXCEPT ![id] = SoftDeleted(store[id])]
          /\ resp' = Response("delete", id, 200, "Reservation deleted successfully", NoReq)

deleteReservation(id) ==
  /\ UNCHANGED inflight
  /\ IF ~IsValidObjectId(id)
       THEN /\ resp' = Response("delete", id, 400, "Invalid reservation ID format", NoReq)
            /\ UNCHANGED store
     ELSE IF id \notin Ids
       THEN /\ resp' = Response("delete", id, 404, "Reservation not found", NoReq)
            /\ UNCHANGED store
     ELSE IF store[id].status \notin DeletableStatuses
       THEN /\ resp' = Response("delete", id, 400, "Only cancelled or pending reservations can be deleted", NoReq)
            /\ UNCHANGED store
     ELSE /\ store' = [store EXCEPT ![id] = SoftDeleted(store[id])]
          /\ resp' = Response("delete", id, 200, "Reservation deleted successfully", NoReq)

\* ------------------------------------------------- requests, one at a time
\* ReservationController reads and writes the Reservation model only.
\* The client reads the response; the next request can be sent.
Receive ==
  /\ resp # NoResponse
  /\ resp' = NoResponse
  /\ UNCHANGED <<store, inflight, checkIns, checkOuts, users, resetLog, bills,
               tasks, items, transactions, isConnected, readyState,
               listeners, dbCall, dbEvent, issued>>

Create ==
  /\ resp = NoResponse
  /\ UNCHANGED <<checkIns, checkOuts, users, resetLog, bills,
               tasks, items, transactions, isConnected, readyState,
               listeners, dbCall, dbEvent, issued>>
  /\ \E body \in CreateBodies : createReservation(body)

Update ==
  /\ resp = NoResponse
  /\ UNCHANGED <<checkIns, checkOuts, users, resetLog, bills,
               tasks, items, transactions, isConnected, readyState,
               listeners, dbCall, dbEvent, issued>>
  /\ \/ \E id \in 1..MaxRes, patch \in UpdatePatches : updateReservation(id, patch)
     \/ updateReservation(0, NoReq)

Availability ==
  /\ resp = NoResponse
  /\ UNCHANGED <<checkIns, checkOuts, users, resetLog, bills,
               tasks, items, transactions, isConnected, readyState,
               listeners, dbCall, dbEvent, issued>>
  /\ \/ \E roomId \in Rooms, checkIn \in Dates, checkOut \in Dates :
          checkAvailability(roomId, checkIn, checkOut)
     \/ \E roomId \in {-1, 0} : checkAvailability(roomId, Now, MaxDate)

Confirm ==
  /\ resp = NoResponse
  /\ UNCHANGED <<checkIns, checkOuts, users, resetLog, bills,
               tasks, items, transactions, isConnected, readyState,
               listeners, dbCall, dbEvent, issued>>
  /\ \E id \in 0..MaxRes : confirmReservation(id)

Cancel_VoidsBills ==
  /\ resp = NoResponse
  /\ UNCHANGED <<checkIns, checkOuts, users, resetLog,
               tasks, items, transactions, isConnected, readyState,
               listeners, dbCall, dbEvent, issued>>
  /\ \E id \in 0..MaxRes :
       /\ cancelReservation(id)
       /\ bills' = [i \in 1..Len(bills) |->
                     IF bills[i].reservationId = id
                       THEN [bills[i] EXCEPT !.status = "cancelled"]
                     ELSE bills[i]]

Cancel ==
  /\ resp = NoResponse
  /\ UNCHANGED <<checkIns, checkOuts, users, resetLog, bills,
               tasks, items, transactions, isConnected, readyState,
               listeners, dbCall, dbEvent, issued>>
  /\ \E id \in 0..MaxRes : cancelReservation(id)

UpdateStatus ==
  /\ resp = NoResponse
  /\ UNCHANGED <<checkIns, checkOuts, users, resetLog, bills,
               tasks, items, transactions, isConnected, readyState,
               listeners, dbCall, dbEvent, issued>>
  /\ \E id \in 0..MaxRes, status \in StatusInputs : updateReservationStatus(id, status)

Delete ==
  /\ resp = NoResponse
  /\ UNCHANGED <<checkIns, checkOuts, users, resetLog, bills,
               tasks, items, transactions, isConnected, readyState,
               listeners, dbCall, dbEvent, issued>>
  /\ \E id \in 0..MaxRes : deleteReservation(id)

Next ==
  \/ Create
  \/ Update
  \/ Availability
  \/ Confirm
  \/ Cancel
  \/ UpdateStatus
  \/ Delete
  \/ Receive

Spec == Init /\ [][Next]_vars

\* ------------------------------------------------- concurrent create requests
\* Two create requests in flight at once.  createReservation awaits
\* Reservation.findOne and then reservation.save(); other requests run
\* between the two.

\* Request bodies of the concurrent creates.
ConcBodies ==
  [roomId : Rooms, checkInDate : Dates, checkOutDate : Dates \ {Now},
   status : {"", "confirmed"},
   totalAmount : {MaxAmount}, depositAmount : {NoAmount}]

\* A request that asks for the same room and the identical date range.
SameRoomAndRange(a, b) ==
  /\ a.roomId = b.roomId
  /\ a.checkInDate = b.checkInDate
  /\ a.checkOutDate = b.checkOutDate

\* createReservation up to the end of `await Reservation.findOne(...)`.
\* rival records that the other request had passed its own findOne for the
\* same room and range and had not saved yet.
createReservation_findOne(p, body) ==
  /\ inflight[p].pc = "idle"
  /\ UNCHANGED <<store, resp>>
  /\ IF ConflictIds(body.roomId, body.checkInDate, body.checkOutDate, 0) # {}
       THEN inflight' = [inflight EXCEPT ![p] =
              [pc |-> "done", body |-> body, code |-> 409, rival |-> FALSE]]
     ELSE inflight' = [inflight EXCEPT ![p] =
              [pc |-> "checked", body |-> body, code |-> 0,
               rival |-> \E q \in Procs \ {p} :
                           /\ inflight[q].pc = "checked"
                           /\ SameRoomAndRange(inflight[q].body, body)]]

\* createReservation from `new Reservation(body)` and `await reservation.save()` on.
createReservation_save(p) ==
  /\ inflight[p].pc = "checked"
  /\ UNCHANGED resp
  /\ IF ~ValidateOnSave(NewReservation(inflight[p].body))
       THEN /\ inflight' = [inflight EXCEPT ![p].pc = "done", ![p].code = 500]
            /\ UNCHANGED store
     ELSE /\ Len(store) < MaxRes
          /\ store' = Append(store, NewReservation(inflight[p].body))
          /\ inflight' = [inflight EXCEPT ![p].pc = "done", ![p].code = 201]

CreateFind ==
  /\ resp = NoResponse
  /\ UNCHANGED <<checkIns, checkOuts, users, resetLog, bills,
               tasks, items, transactions, isConnected, readyState,
               listeners, dbCall, dbEvent, issued>>
  /\ \E p \in Procs, body \in ConcBodies : createReservation_findOne(p, body)

CreateSave ==
  /\ resp = NoResponse
  /\ UNCHANGED <<checkIns, checkOuts, users, resetLog, bills,
               tasks, items, transactions, isConnected, readyState,
               listeners, dbCall, dbEvent, issued>>
  /\ \E p \in Procs : createReservation_save(p)

NextConc ==
  \/ CreateFind
  \/ CreateSave
  \/ Confirm
  \/ Cancel
  \/ UpdateStatus
  \/ Receive

SpecConc == Init /\ [][NextConc]_vars

\* ------------------------------------------------- amounts
\* Create and update requests that differ in their amounts only.
AmountBodies ==
  [roomId : {1}, checkInDate : {Now + 1}, checkOutDate : {MaxDate}, status : {""},
   totalAmount : {NoAmount} \cup Amounts, depositAmount : {NoAmount} \cup Amounts]

AmountPatches ==
  [roomId : {0}, checkInDate : {0}, checkOutDate : {0}, status : {""},
   totalAmount : {NoAmount} \cup Amounts, depositAmount : {NoAmount} \cup Amounts]

CreateWithAmounts ==
  /\ resp = NoResponse
  /\ UNCHANGED <<checkIns, checkOuts, users, resetLog, bills,
               tasks, items, transactions, isConnected, readyState,
               listeners, dbCall, dbEvent, issued>>
  /\ \E body \in AmountBodies : createReservation(body)

UpdateAmounts ==
  /\ resp = NoResponse
  /\ UNCHANGED <<checkIns, checkOuts, users, resetLog, bills,
               tasks, items, transactions, isConnected, readyState,
               listeners, dbCall, dbEvent, issued>>
  /\ \E id \in 1..MaxRes, patch \in AmountPatches : updateReservation(id, patch)

NextAmounts ==
  \/ CreateWithAmounts
  \/ UpdateAmounts
  \/ Receive

SpecAmounts == Init /\ [][NextAmounts]_vars

\* ------------------------------------------------- front desk
\* Request bodies of POST /checkins.  reservationId and roomId are strings in
\* the CheckIn schema: 0 is an absent one and -1 one that is not an ObjectId.
CheckInBodies == [reservationId : -1..MaxRes, roomId : {0, 1}]

\* CheckIn schema: reservationId and roomId are required.
CheckInValid(doc) == doc.reservationId # 0 /\ doc.roomId # 0

\* CheckInModel.findOne({ reservationId })
CheckInsOf(reservationId) ==
  {i \in 1..Len(checkIns) : checkIns[i].reservationId = reservationId}

createCheckIn(body) ==
  /\ UNCHANGED <<store, checkOuts>>
  /\ IF CheckInsOf(body.reservationId) # {}
       THEN /\ resp' = Response("createCheckIn", 0, 400, "Check-in already exists for this reservation", body)
            /\ UNCHANGED checkIns
     ELSE IF ~CheckInValid(body)
       THEN /\ resp' = Response("createCheckIn", 0, 500, "Internal server error", body)
            /\ UNCHANGED checkIns
     ELSE /\ Len(checkIns) < MaxCheckIns
          /\ checkIns' = Append(checkIns, body)
          /\ resp' = Response("createCheckIn", Len(checkIns) + 1, 200, "Check-in created successfully", body)

\* Request bodies of POST /checkouts (checkInId -1 is not an ObjectId, a
\* negative finalBillAmount is below the schema's minimum).
CheckOutBodies == [checkInId : {-1} \cup (1..MaxCheckIns), finalBillAmount : {-1, 0}]

\* { ...checkOutData, reservationId: checkIn.reservationId, roomId: checkIn.roomId }
NewCheckOut(body, checkIn) ==
  [checkInId |-> body.checkInId,
   reservationId |-> checkIn.reservationId,
   roomId |-> checkIn.roomId,
   finalBillAmount |-> body.finalBillAmount]

\* CheckOut schema: reservationId and roomId are ObjectIds, finalBillAmount
\* has min 0.
CheckOutValid(doc) ==
  /\ IsValidObjectId(doc.reservationId)
  /\ IsValidObjectId(doc.roomId)
  /\ doc.finalBillAmount >= 0

\* CheckOutModel.findOne({ checkInId })
CheckOutsOf(checkInId) ==
  {i \in 1..Len(checkOuts) : checkOuts[i].checkInId = checkInId}

createCheckOut(body) ==
  /\ UNCHANGED <<store, checkIns>>
  /\ IF ~IsValidObjectId(body.checkInId)
       THEN /\ resp' = Response("createCheckOut", 0, 500, "Internal server error", body)
            /\ UNCHANGED checkOuts
     ELSE IF CheckOutsOf(body.checkInId) # {}
       THEN /\ resp' = Response("createCheckOut", 0, 400, "Check-out already exists for this check-in", body)
            /\ UNCHANGED checkOuts
     ELSE IF body.checkInId \notin 1..Len(checkIns)
       THEN /\ resp' = Response("createCheckOut", 0, 404, "Check-in not found", body)
            /\ UNCHANGED checkOuts
     ELSE IF ~CheckOutValid(NewCheckOut(body, checkIns[body.checkInId]))
       THEN /\ resp' = Response("createCheckOut", 0, 500, "Internal server error", body)
            /\ UNCHANGED checkOuts
     ELSE /\ checkOuts' = Append(checkOuts, NewCheckOut(body, checkIns[body.checkInId]))
          /\ resp' = Response("createCheckOut", Len(checkOuts) + 1, 200, "Check-out created successfully", body)

\* Request bodies of the reservations the front desk works on.
StayBodies ==
  [roomId : Rooms, checkInDate : {Now + 1}, checkOutDate : {MaxDate}, status : {""},
   totalAmount : {MaxAmount}, depositAmount : {NoAmount}]

Reserve ==
  /\ resp = NoResponse
  /\ UNCHANGED <<checkIns, checkOuts, users, resetLog, bills,
               tasks, items, transactions, isConnected, readyState,
               listeners, dbCall, dbEvent, issued>>
  /\ \E body \in StayBodies : createReservation(body)

CreateCheckIn ==
  /\ resp = NoResponse
  /\ UNCHANGED <<inflight, users, resetLog, bills,
               tasks, items, transactions, isConnected, readyState,
               listeners, dbCall, dbEvent, issued>>
  /\ \E body \in CheckInBodies : createCheckIn(body)

CreateCheckOut ==
  /\ resp = NoResponse
  /\ UNCHANGED <<inflight, users, resetLog, bills,
               tasks, items, transactions, isConnected, readyState,
               listeners, dbCall, dbEvent, issued>>
  /\ \E body \in CheckOutBodies : createCheckOut(body)

\* ------------------------------------------------- concurrent check-ins
\* Two createCheckIn requests in flight at once.  createCheckIn awaits
\* CheckInModel.findOne and then CheckInModel.create; the other request runs
\* between the two.

\* createCheckIn up to the end of `await CheckInModel.findOne(...)`.
createCheckIn_findOne(p, body) ==
  /\ inflight[p].pc = "idle"
  /\ UNCHANGED <<store, resp, checkIns, checkOuts>>
  /\ IF CheckInsOf(body.reservationId) # {}
       THEN inflight' = [inflight EXCEPT ![p] =
              [pc |-> "done", body |-> body, code |-> 400, rival |-> FALSE]]
     ELSE inflight' = [inflight EXCEPT ![p] =
              [pc |-> "checked", body |-> body, code |-> 0, rival |-> FALSE]]

\* createCheckIn from `await CheckInModel.create(checkInData)` on.
createCheckIn_create(p) ==
  /\ inflight[p].pc = "checked"
  /\ UNCHANGED <<store, resp, checkOuts>>
  /\ IF ~CheckInValid(inflight[p].body)
       THEN /\ inflight' = [inflight EXCEPT ![p].pc = "done", ![p].code = 500]
            /\ UNCHANGED checkIns
     ELSE /\ Len(checkIns) < MaxCheckIns
          /\ checkIns' = Append(checkIns, inflight[p].body)
          /\ inflight' = [inflight EXCEPT ![p].pc = "done", ![p].code = 200]

CheckInFind ==
  /\ UNCHANGED <<users, resetLog, bills,
               tasks, items, transactions, isConnected, readyState,
               listeners, dbCall, dbEvent, issued>>
  /\ \E p \in Procs, body \in CheckInBodies : createCheckIn_findOne(p, body)

CheckInCreate ==
  /\ UNCHANGED <<users, resetLog, bills,
               tasks, items, transactions, isConnected, readyState,
               listeners, dbCall, dbEvent, issued>>
  /\ \E p \in Procs : createCheckIn_create(p)

NextConcCheckIn ==
  \/ CheckInFind
  \/ CheckInCreate

SpecConcCheckIn == Init /\ [][NextConcCheckIn]_vars

\* ------------------------------------------------- bills
\* Request bodies of POST /bills (reservationId 0 is absent, a negative
\* totalAmount is below the schema's minimum).
BillBodies == [reservationId : 0..MaxRes, totalAmount : {-1, 0}]

\* BillModel.create(body): status defaults to pending; paidDate 0 and
\* paymentMethod "" are unset.
NewBill(body) ==
  [reservationId |-> body.reservationId,
   totalAmount |-> body.totalAmount,
   status |-> "pending",
   paidDate |-> 0,
   paymentMethod |-> ""]

\* Bill schema: reservationId is required, totalAmount has min 0.
BillValid(doc) == doc.reservationId # 0 /\ doc.totalAmount >= 0

\* BillModel.findOne({ reservationId })
BillsOf(reservationId) ==
  {i \in 1..Len(bills) : bills[i].reservationId = reservationId}

createBill(body) ==
  IF body.reservationId # 0 /\ BillsOf(body.reservationId) # {}
    THEN /\ resp' = Response("createBill", 0, 400, "Bill already exists for this reservation", body)
         /\ UNCHANGED bills
  ELSE IF ~BillValid(NewBill(body))
    THEN /\ resp' = Response("createBill", 0, 500, "Internal server error", body)
         /\ UNCHANGED bills
  ELSE /\ bills' = Append(bills, NewBill(body))
       /\ resp' = Response("createBill", Len(bills) + 1, 201, "Bill created successfully", body)

\* Values of paymentMethod in a payment body: absent, two of the enum's, and
\* one that is not in the enum PaymentMethod.
PaymentMethodInputs == {"", "cash", "credit_card", "bogus"}

\* paymentMethod: enum Object.values(PaymentMethod)
paymentMethodValid(value) ==
  value \in {"cash", "credit_card", "debit_card", "bank_transfer", "digital_wallet"}

\* findByIdAndUpdate(id, { status: PAID, paidDate: new Date(), paymentMethod })
Paid(bill, paymentMethod) ==
  [bill EXCEPT !.status = "paid",
               !.paidDate = Now,
               !.paymentMethod = IF paymentMethod # "" THEN paymentMethod ELSE @]

processPayment(id, paymentMethod) ==
  IF ~IsValidObjectId(id)
    THEN /\ resp' = Response("processPayment", id, 500, "Internal server error", [paymentMethod |-> paymentMethod])
         /\ UNCHANGED bills
  ELSE IF id \notin 1..Len(bills)
    THEN /\ resp' = Response("processPayment", id, 404, "Bill not found", [paymentMethod |-> paymentMethod])
         /\ UNCHANGED bills
  ELSE IF bills[id].status = "paid"
    THEN /\ resp' = Response("processPayment", id, 400, "Bill is already paid", [paymentMethod |-> paymentMethod])
         /\ UNCHANGED bills
  ELSE IF paymentMethod # "" /\ ~paymentMethodValid(paymentMethod)
    THEN /\ resp' = Response("processPayment", id, 500, "Internal server error", [paymentMethod |-> paymentMethod])
         /\ UNCHANGED bills
  ELSE /\ bills' = [bills EXCEPT ![id] = Paid(bills[id], paymentMethod)]
       /\ resp' = Response("processPayment", id, 200, "Payment processed successfully", [paymentMethod |-> paymentMethod])

\* findByIdAndUpdate(id, { status: CANCELLED, refundAmount, refundReason,
\* refundDate }): the three refund paths are not in the Bill schema and are
\* not stored.
processRefund(id) ==
  IF ~IsValidObjectId(id)
    THEN /\ resp' = Response("processRefund", id, 500, "Internal server error", NoReq)
         /\ UNCHANGED bills
  ELSE IF id \notin 1..Len(bills)
    THEN /\ resp' = Response("processRefund", id, 404, "Bill not found", NoReq)
         /\ UNCHANGED bills
  ELSE IF bills[id].status # "paid"
    THEN /\ resp' = Response("processRefund", id, 400, "Cannot refund unpaid bill", NoReq)
         /\ UNCHANGED bills
  ELSE /\ bills' = [bills EXCEPT ![id].status = "cancelled"]
       /\ resp' = Response("processRefund", id, 200, "Refund processed successfully", NoReq)

\* BillController reads and writes the Bill model only.
CreateBill ==
  /\ resp = NoResponse
  /\ UNCHANGED <<store, inflight, checkIns, checkOuts, users, resetLog,
               tasks, items, transactions, isConnected, readyState,
               listeners, dbCall, dbEvent, issued>>
  /\ \E body \in BillBodies : createBill(body)

ProcessPayment ==
  /\ resp = NoResponse
  /\ UNCHANGED <<store, inflight, checkIns, checkOuts, users, resetLog,
               tasks, items, transactions, isConnected, readyState,
               listeners, dbCall, dbEvent, issued>>
  /\ \E id \in -1..MaxRes, paymentMethod \in PaymentMethodInputs : processPayment(id, paymentMethod)

ProcessRefund ==
  /\ resp = NoResponse
  /\ UNCHANGED <<store, inflight, checkIns, checkOuts, users, resetLog,
               tasks, items, transactions, isConnected, readyState,
               listeners, dbCall, dbEvent, issued>>
  /\ \E id \in -1..MaxRes : processRefund(id)

NextBill ==
  \/ CreateBill
  \/ ProcessPayment
  \/ ProcessRefund
  \/ Receive

SpecBill == Init /\ [][NextBill]_vars

\* The front desk: reservations, their check-ins, check-outs and bills.
NextStay ==
  \/ Reserve
  \/ Confirm
  \/ Cancel
  \/ CreateCheckIn
  \/ CreateCheckOut
  \/ CreateBill
  \/ Receive

SpecStay == Init /\ [][NextStay]_vars

\* Reservations that are soft-deleted and worked on afterwards.
NextDelete ==
  \/ Reserve
  \/ Delete
  \/ Confirm
  \/ Cancel
  \/ Receive

SpecDelete == Init /\ [][NextDelete]_vars

\* ------------------------------------------------- accounts
\* An email, a password and a reset token are numbers; 0 is a value the
\* request schema rejects (no valid email, fewer than 6 characters, empty).
Emails == 1..NumEmails
Passwords == 1..NumPasswords
Tokens == 1..NumTokens

\* bcrypt.hash(password, saltRounds)
Hash(password) == <<"bcrypt", password>>

\* UserModel.findOne({ email })
UsersWith(email) == {i \in 1..Len(users) : users[i].email = email}

RegisterBodies == [email : {0} \cup Emails, password : {0} \cup Passwords]

register(body) ==
  /\ UNCHANGED resetLog
  /\ IF body.email = 0 \/ body.password = 0
       THEN /\ resp' = Response("register", 0, 400, "Validation failed", body)
            /\ UNCHANGED users
     ELSE IF UsersWith(body.email) # {}
       THEN /\ resp' = Response("register", 0, 409, "User with this email already exists", body)
            /\ UNCHANGED users
     ELSE /\ users' = Append(users, [email |-> body.email,
                                     password |-> Hash(body.password),
                                     isActive |-> TRUE])
          /\ resp' = Response("register", Len(users) + 1, 201, "User registered successfully", body)

\* crypto.randomBytes(32) is any token; the token is logged and returned in
\* the response, and stored nowhere.
forgotPassword(email) ==
  /\ UNCHANGED users
  /\ IF email = 0
       THEN /\ resp' = Response("forgotPassword", 0, 400, "Validation failed", [email |-> email, resetToken |-> 0])
            /\ UNCHANGED resetLog
     ELSE IF UsersWith(email) = {}
       THEN /\ resp' = Response("forgotPassword", 0, 200, "If the email exists, a reset link has been sent", [email |-> email, resetToken |-> 0])
            /\ UNCHANGED resetLog
     ELSE \E resetToken \in Tokens :
            /\ resetLog' = resetLog \cup {[email |-> email, resetToken |-> resetToken]}
            /\ resp' = Response("forgotPassword", 0, 200, "If the email exists, a reset link has been sent", [email |-> email, resetToken |-> resetToken])

ResetBodies ==
  [email : {0} \cup Emails, resetToken : {0} \cup Tokens,
   newPassword : {0} \cup Passwords, confirmPassword : {0} \cup Passwords]

\* resetPasswordSchema
ResetBodyValid(body) ==
  /\ body.email # 0
  /\ body.resetToken # 0
  /\ body.newPassword # 0
  /\ body.confirmPassword # 0
  /\ body.newPassword = body.confirmPassword

resetPassword(body) ==
  /\ UNCHANGED resetLog
  /\ IF ~ResetBodyValid(body)
       THEN /\ resp' = Response("resetPassword", 0, 400, "Validation failed", body)
            /\ UNCHANGED users
     ELSE IF UsersWith(body.email) = {}
       THEN /\ resp' = Response("resetPassword", 0, 400, "Invalid reset token or email", body)
            /\ UNCHANGED users
     ELSE \E i \in UsersWith(body.email) :
            /\ users' = [users EXCEPT ![i].password = Hash(body.newPassword)]
            /\ resp' = Response("resetPassword", i, 200, "Password reset successfully", body)

Register ==
  /\ resp = NoResponse
  /\ Len(users) < MaxUsers
  /\ UNCHANGED <<store, inflight, checkIns, checkOuts, bills,
               tasks, items, transactions, isConnected, readyState,
               listeners, dbCall, dbEvent, issued>>
  /\ \E body \in RegisterBodies : register(body)

ForgotPassword ==
  /\ resp = NoResponse
  /\ UNCHANGED <<store, inflight, checkIns, checkOuts, bills,
               tasks, items, transactions, isConnected, readyState,
               listeners, dbCall, dbEvent, issued>>
  /\ \E email \in {0} \cup Emails : forgotPassword(email)

ResetPassword ==
  /\ resp = NoResponse
  /\ UNCHANGED <<store, inflight, checkIns, checkOuts, bills,
               tasks, items, transactions, isConnected, readyState,
               listeners, dbCall, dbEvent, issued>>
  /\ \E body \in ResetBodies : resetPassword(body)

NextAuth ==
  \/ Register
  \/ ForgotPassword
  \/ ResetPassword
  \/ Receive

SpecAuth == Init /\ [][NextAuth]_vars

\* ------------------------------------------------- sessions
\* process.env.JWT_SECRET: "" is an environment without the variable.
JwtSecrets == {"", "secret"}

\* login signs with process.env.JWT_SECRET || 'fallback-secret'.
SigningKey(secret) == IF secret = "" THEN "fallback-secret" ELSE secret

\* jwt.sign({ userId, ... }, key): the payload's user and the key that signed
\* it.
Jwt(userId, key) == [userId |-> userId, key |-> key]

\* A deleted user: findByIdAndDelete removes the document and its _id is
\* never given out again, so the place in the sequence stays taken.
NoUser == [email |-> 0, password |-> <<>>, isActive |-> FALSE]

\* UserModel.findById(id) finds a document
UserExists(id) == id \in 1..Len(users) /\ users[id] # NoUser

\* bcrypt.compare(password, hash)
Compare(password, hash) == hash = Hash(password)

\* The Authorization header of a request: none, a Bearer token that
\* jwt.verify rejects whatever the secret (malformed or forged), or a token
\* login has signed, which may have expired since (expiresIn: '24h').
AuthHeaders ==
  {[kind |-> k, userId |-> 0, key |-> ""] : k \in {"none", "malformed"}}
    \cup {[kind |-> k, userId |-> t.userId, key |-> t.key] :
            k \in {"bearer", "expired"}, t \in issued}

LoginBodies == [email : {0} \cup Emails, password : {0} \cup Passwords]

login(body, secret) ==
  IF body.email = 0 \/ body.password = 0
    THEN /\ resp' = Response("login", 0, 400, "Validation failed", body)
         /\ UNCHANGED <<users, issued>>
  ELSE IF UsersWith(body.email) = {}
    THEN /\ resp' = Response("login", 0, 400, "Invalid email or password", body)
         /\ UNCHANGED <<users, issued>>
  ELSE \E i \in UsersWith(body.email) :
         IF ~users[i].isActive
           THEN /\ resp' = Response("login", i, 403, "Account is deactivated", body)
                /\ UNCHANGED <<users, issued>>
         ELSE IF ~Compare(body.password, users[i].password)
           THEN /\ resp' = Response("login", i, 401, "Invalid email or password", body)
                /\ UNCHANGED <<users, issued>>
         ELSE /\ issued' = issued \cup {Jwt(i, SigningKey(secret))}
              /\ resp' = Response("login", i, 200, "Login successful", body)
              /\ UNCHANGED users

\* The isActive of a request body: type is its typeof.
IsActiveInputs ==
  {[type |-> "boolean", value |-> TRUE], [type |-> "boolean", value |-> FALSE],
   [type |-> "string", value |-> TRUE]}

toggleUserStatus(id, isActive) ==
  IF isActive.type # "boolean"
    THEN /\ resp' = Response("toggleUserStatus", id, 400, "isActive must be a boolean value", NoReq)
         /\ UNCHANGED users
  ELSE IF ~IsValidObjectId(id)
    THEN /\ resp' = Response("toggleUserStatus", id, 500, "Failed to update user status", NoReq)
         /\ UNCHANGED users
  ELSE IF ~UserExists(id)
    THEN /\ resp' = Response("toggleUserStatus", id, 404, "User not found", NoReq)
         /\ UNCHANGED users
  ELSE /\ users' = [users EXCEPT ![id].isActive = isActive.value]
       /\ resp' = Response("toggleUserStatus", id, 200,
                           IF isActive.value THEN "User activated successfully"
                                       ELSE "User deactivated successfully", NoReq)

deleteUser(id) ==
  IF ~IsValidObjectId(id)
    THEN /\ resp' = Response("deleteUser", id, 500, "Failed to delete user", NoReq)
         /\ UNCHANGED users
  ELSE IF ~UserExists(id)
    THEN /\ resp' = Response("deleteUser", id, 404, "User not found", NoReq)
         /\ UNCHANGED users
  ELSE /\ users' = [users EXCEPT ![id] = NoUser]
       /\ resp' = Response("deleteUser", id, 200, "User deleted successfully", NoReq)

\* The middleware with the check of user.isActive left out.
authMiddleware_NoActiveCheck(header, secret) ==
  IF header.kind = "none"
    THEN resp' = Response("authMiddleware", 0, 401, "Access token required", [header |-> header, secret |-> secret])
  ELSE IF secret = ""
    THEN resp' = Response("authMiddleware", 0, 500, "Server configuration error", [header |-> header, secret |-> secret])
  ELSE IF header.kind = "malformed" \/ header.key # secret
    THEN resp' = Response("authMiddleware", 0, 401, "Invalid token", [header |-> header, secret |-> secret])
  ELSE IF header.kind = "expired"
    THEN resp' = Response("authMiddleware", 0, 401, "Token expired", [header |-> header, secret |-> secret])
  ELSE IF ~UserExists(header.userId)
    THEN resp' = Response("authMiddleware", header.userId, 401, "User not found", [header |-> header, secret |-> secret])
  ELSE resp' = Response("authMiddleware", header.userId, 0, "next", [header |-> header, secret |-> secret])

\* A response with code 0 and message "next" is the call of next(): the
\* middleware has answered nothing and the route's handler runs.
authMiddleware(header, secret) ==
  IF header.kind = "none"
    THEN resp' = Response("authMiddleware", 0, 401, "Access token required", [header |-> header, secret |-> secret])
  ELSE IF secret = ""
    THEN resp' = Response("authMiddleware", 0, 500, "Server configuration error", [header |-> header, secret |-> secret])
  ELSE IF header.kind = "malformed" \/ header.key # secret
    THEN resp' = Response("authMiddleware", 0, 401, "Invalid token", [header |-> header, secret |-> secret])
  ELSE IF header.kind = "expired"
    THEN resp' = Response("authMiddleware", 0, 401, "Token expired", [header |-> header, secret |-> secret])
  ELSE IF ~UserExists(header.userId)
    THEN resp' = Response("authMiddleware", header.userId, 401, "User not found", [header |-> header, secret |-> secret])
  ELSE IF ~users[header.userId].isActive
    THEN resp' = Response("authMiddleware", header.userId, 401, "Account is deactivated", [header |-> header, secret |-> secret])
  ELSE resp' = Response("authMiddleware", header.userId, 0, "next", [header |-> header, secret |-> secret])

Login ==
  /\ resp = NoResponse
  /\ UNCHANGED <<store, inflight, checkIns, checkOuts, resetLog, bills, tasks,
               items, transactions, isConnected, readyState, listeners,
               dbCall, dbEvent>>
  /\ \E body \in LoginBodies, secret \in JwtSecrets : login(body, secret)

ToggleUserStatus ==
  /\ resp = NoResponse
  /\ UNCHANGED <<store, inflight, checkIns, checkOuts, resetLog, bills, tasks,
               items, transactions, isConnected, readyState, listeners,
               dbCall, dbEvent, issued>>
  /\ \E id \in -1..MaxUsers, isActive \in IsActiveInputs :
       toggleUserStatus(id, isActive)

DeleteUser ==
  /\ resp = NoResponse
  /\ UNCHANGED <<store, inflight, checkIns, checkOuts, resetLog, bills, tasks,
               items, transactions, isConnected, readyState, listeners,
               dbCall, dbEvent, issued>>
  /\ \E id \in -1..MaxUsers : deleteUser(id)

AuthMiddleware ==
  /\ resp = NoResponse
  /\ UNCHANGED <<store, inflight, checkIns, checkOuts, users, resetLog, bills,
               tasks, items, transactions, isConnected, readyState,
               listeners, dbCall, dbEvent, issued>>
  /\ \E header \in AuthHeaders, secret \in JwtSecrets :
       authMiddleware(header, secret)

NextSession ==
  \/ Register
  \/ Login
  \/ ToggleUserStatus
  \/ DeleteUser
  \/ AuthMiddleware
  \/ Receive

SpecSession == Init /\ [][NextSession]_vars

\* ------------------------------------------------- housekeeping
Staff == 1..NumStaff

TaskStatus == {"pending", "assigned", "in_progress", "completed", "cancelled"}

\* The status values a request carries: the enum's, and 'overdue', which the
\* route's schema lets through and the model's enum does not hold.
TaskStatusInputs == TaskStatus \cup {"overdue"}

\* assignedStaffId 0: the field is absent; status "": absent, the schema's
\* default applies.
TaskBodies == [assignedStaffId : 0..NumStaff, status : {"", "completed", "overdue"}]

NewTask(body) ==
  [assignedStaffId |-> body.assignedStaffId,
   status |-> IF body.status = "" THEN "pending" ELSE body.status]

TaskValid(doc) == doc.assignedStaffId # 0 /\ doc.status \in TaskStatus

createHousekeepingTask(body) ==
  IF ~TaskValid(NewTask(body))
    THEN /\ resp' = Response("createHousekeepingTask", 0, 500, "Internal server error", NoReq)
         /\ UNCHANGED tasks
  ELSE /\ tasks' = Append(tasks, NewTask(body))
       /\ resp' = Response("createHousekeepingTask", Len(tasks) + 1, 201, "Housekeeping task created successfully", NoReq)

\* assignedTo -1: a string that is no ObjectId (CastError in the update).
assignHousekeepingTask(id, assignedTo) ==
  IF ~IsValidObjectId(id)
    THEN /\ resp' = Response("assignHousekeepingTask", id, 500, "Internal server error", NoReq)
         /\ UNCHANGED tasks
  ELSE IF id \notin 1..Len(tasks)
    THEN /\ resp' = Response("assignHousekeepingTask", id, 404, "Housekeeping task not found", NoReq)
         /\ UNCHANGED tasks
  ELSE IF tasks[id].status = "completed"
    THEN /\ resp' = Response("assignHousekeepingTask", id, 400, "Cannot assign completed housekeeping task", NoReq)
         /\ UNCHANGED tasks
  ELSE IF ~IsValidObjectId(assignedTo)
    THEN /\ resp' = Response("assignHousekeepingTask", id, 500, "Internal server error", NoReq)
         /\ UNCHANGED tasks
  ELSE /\ tasks' = [tasks EXCEPT ![id] = [assignedStaffId |-> assignedTo, status |-> "in_progress"]]
       /\ resp' = Response("assignHousekeepingTask", id, 200, "Housekeeping task assigned successfully", NoReq)

\* No guard on the task's current status: findById, then
\* findByIdAndUpdate(id, { status: statusData.status, ... }, runValidators).
updateHousekeepingTaskStatus(id, status) ==
  IF ~IsValidObjectId(id)
    THEN /\ resp' = Response("updateHousekeepingTaskStatus", id, 500, "Internal server error", NoReq)
         /\ UNCHANGED tasks
  ELSE IF id \notin 1..Len(tasks)
    THEN /\ resp' = Response("updateHousekeepingTaskStatus", id, 404, "Housekeeping task not found", NoReq)
         /\ UNCHANGED tasks
  ELSE IF status \notin TaskStatus
    THEN /\ resp' = Response("updateHousekeepingTaskStatus", id, 500, "Internal server error", NoReq)
         /\ UNCHANGED tasks
  ELSE /\ tasks' = [tasks EXCEPT ![id].status = status]
       /\ resp' = Response("updateHousekeepingTaskStatus", id, 200, "Housekeeping task status updated successfully", NoReq)

completeHousekeepingTask(id) ==
  IF ~IsValidObjectId(id)
    THEN /\ resp' = Response("completeHousekeepingTask", id, 500, "Internal server error", NoReq)
         /\ UNCHANGED tasks
  ELSE IF id \notin 1..Len(tasks)
    THEN /\ resp' = Response("completeHousekeepingTask", id, 404, "Housekeeping task not found", NoReq)
         /\ UNCHANGED tasks
  ELSE IF tasks[id].status = "completed"
    THEN /\ resp' = Response("completeHousekeepingTask", id, 400, "Housekeeping task is already completed", NoReq)
         /\ UNCHANGED tasks
  ELSE /\ tasks' = [tasks EXCEPT ![id].status = "completed"]
       /\ resp' = Response("completeHousekeepingTask", id, 200, "Housekeeping task completed successfully", NoReq)

\* HousekeepingTaskController reads and writes the HousekeepingTask model
\* only.
CreateHousekeepingTask ==
  /\ resp = NoResponse
  /\ Len(tasks) < MaxTasks
  /\ UNCHANGED <<store, inflight, checkIns, checkOuts, users, resetLog, bills,
               items, transactions, isConnected, readyState, listeners,
               dbCall, dbEvent, issued>>
  /\ \E body \in TaskBodies : createHousekeepingTask(body)

AssignHousekeepingTask ==
  /\ resp = NoResponse
  /\ UNCHANGED <<store, inflight, checkIns, checkOuts, users, resetLog, bills,
               items, transactions, isConnected, readyState, listeners,
               dbCall, dbEvent, issued>>
  /\ \E id \in -1..MaxTasks, assignedTo \in {-1} \cup Staff :
       assignHousekeepingTask(id, assignedTo)

UpdateHousekeepingTaskStatus ==
  /\ resp = NoResponse
  /\ UNCHANGED <<store, inflight, checkIns, checkOuts, users, resetLog, bills,
               items, transactions, isConnected, readyState, listeners,
               dbCall, dbEvent, issued>>
  /\ \E id \in -1..MaxTasks, status \in TaskStatusInputs :
       updateHousekeepingTaskStatus(id, status)

CompleteHousekeepingTask ==
  /\ resp = NoResponse
  /\ UNCHANGED <<store, inflight, checkIns, checkOuts, users, resetLog, bills,
               items, transactions, isConnected, readyState, listeners,
               dbCall, dbEvent, issued>>
  /\ \E id \in -1..MaxTasks : completeHousekeepingTask(id)

NextTask ==
  \/ CreateHousekeepingTask
  \/ AssignHousekeepingTask
  \/ UpdateHousekeepingTaskStatus
  \/ CompleteHousekeepingTask
  \/ Receive

SpecTask == Init /\ [][NextTask]_vars

\* ------------------------------------------------- inventory
\* The body of POST /inventory/items: quantity -1 is a negative number.
ItemBodies == [sku : 1..NumSkus, quantity : -1..MaxQuantity]

\* inventoryItemSchema.quantity: min 0
ItemValid(doc) == doc.quantity >= 0

\* inventoryTransactionSchema: quantity min 1, previousQuantity and
\* newQuantity min 0
TransactionValid(doc) ==
  /\ doc.quantity >= 1
  /\ doc.previousQuantity >= 0
  /\ doc.newQuantity >= 0

\* The initial transaction createItem writes for the item with _id itemId.
InitialTransaction(itemId, itemData) ==
  [itemId |-> itemId, transactionType |-> "in", quantity |-> itemData.quantity,
   previousQuantity |-> 0, newQuantity |-> itemData.quantity]

\* findOne({ sku }), newItem.save(), InventoryTransactionModel.create(...):
\* three awaits in one try block, whose catch answers 500 and undoes nothing.
createItem(itemData) ==
  IF \E i \in 1..Len(items) : items[i].sku = itemData.sku
    THEN /\ resp' = Response("createItem", 0, 409, "SKU already exists", NoReq)
         /\ UNCHANGED <<items, transactions>>
  ELSE IF ~ItemValid(itemData)
    THEN /\ resp' = Response("createItem", 0, 500, "Failed to create inventory item", NoReq)
         /\ UNCHANGED <<items, transactions>>
  ELSE IF ~TransactionValid(InitialTransaction(Len(items) + 1, itemData))
    THEN /\ items' = Append(items, itemData)
         /\ resp' = Response("createItem", Len(items) + 1, 500, "Failed to create inventory item", NoReq)
         /\ UNCHANGED transactions
  ELSE /\ items' = Append(items, itemData)
       /\ transactions' = Append(transactions, InitialTransaction(Len(items) + 1, itemData))
       /\ resp' = Response("createItem", Len(items) + 1, 200, "Inventory item created successfully", NoReq)

\* InventoryController.createItem reads and writes the InventoryItem and
\* InventoryTransaction models only.
CreateItem ==
  /\ resp = NoResponse
  /\ UNCHANGED <<store, inflight, checkIns, checkOuts, users, resetLog, bills,
               tasks, isConnected, readyState, listeners, dbCall, dbEvent,
               issued>>
  /\ \E itemData \in ItemBodies : createItem(itemData)

NextInventory ==
  \/ CreateItem
  \/ Receive

SpecInventory == Init /\ [][NextInventory]_vars

\* ------------------------------------------------- database connection
\* p is the caller: connect() and disconnect() are async, and a second call
\* can start while the first awaits the driver.

\* connect() is called: it returns at once when isConnected is set, and
\* otherwise awaits mongoose.connect.
connect(p) ==
  /\ dbCall[p] = "none"
  /\ listeners < MaxListeners
  /\ IF isConnected
       THEN /\ dbEvent' = "connect"
            /\ UNCHANGED dbCall
       ELSE /\ dbCall' = [dbCall EXCEPT ![p] = "connect"]
            /\ UNCHANGED dbEvent
  /\ UNCHANGED <<isConnected, readyState, listeners>>
  /\ UNCHANGED <<store, resp, inflight, checkIns, checkOuts, users, resetLog,
               bills, tasks, items, transactions, issued>>

\* mongoose.connect resolves: isConnected = true, and one more set of
\* 'error', 'disconnected' and 'reconnected' handlers is registered.
connect_resolved(p) ==
  /\ dbCall[p] = "connect"
  /\ listeners < MaxListeners
  /\ readyState' = "connected"
  /\ isConnected' = TRUE
  /\ listeners' = listeners + 1
  /\ dbCall' = [dbCall EXCEPT ![p] = "none"]
  /\ dbEvent' = "connect"
  /\ UNCHANGED <<store, resp, inflight, checkIns, checkOuts, users, resetLog,
               bills, tasks, items, transactions, issued>>

\* mongoose.connect rejects: the catch clears isConnected and rethrows.
connect_rejected(p) ==
  /\ dbCall[p] = "connect"
  /\ readyState = "disconnected"
  /\ isConnected' = FALSE
  /\ dbCall' = [dbCall EXCEPT ![p] = "none"]
  /\ dbEvent' = "connectFailed"
  /\ UNCHANGED <<readyState, listeners>>
  /\ UNCHANGED <<store, resp, inflight, checkIns, checkOuts, users, resetLog,
               bills, tasks, items, transactions, issued>>

\* disconnect() is called: it returns at once when isConnected is not set,
\* and otherwise awaits mongoose.disconnect.
disconnect(p) ==
  /\ dbCall[p] = "none"
  /\ IF ~isConnected
       THEN /\ dbEvent' = "disconnect"
            /\ UNCHANGED dbCall
       ELSE /\ dbCall' = [dbCall EXCEPT ![p] = "disconnect"]
            /\ UNCHANGED dbEvent
  /\ UNCHANGED <<isConnected, readyState, listeners>>
  /\ UNCHANGED <<store, resp, inflight, checkIns, checkOuts, users, resetLog,
               bills, tasks, items, transactions, issued>>

\* mongoose.disconnect resolves: the connection is closed (its 'disconnected'
\* handlers run) and isConnected = false.
disconnect_resolved(p) ==
  /\ dbCall[p] = "disconnect"
  /\ readyState' = "disconnected"
  /\ isConnected' = FALSE
  /\ dbCall' = [dbCall EXCEPT ![p] = "none"]
  /\ dbEvent' = "disconnect"
  /\ UNCHANGED listeners
  /\ UNCHANGED <<store, resp, inflight, checkIns, checkOuts, users, resetLog,
               bills, tasks, items, transactions, issued>>

\* mongoose.disconnect rejects: the catch rethrows, isConnected is kept.
disconnect_rejected(p) ==
  /\ dbCall[p] = "disconnect"
  /\ dbCall' = [dbCall EXCEPT ![p] = "none"]
  /\ dbEvent' = "disconnectFailed"
  /\ UNCHANGED <<isConnected, readyState, listeners>>
  /\ UNCHANGED <<store, resp, inflight, checkIns, checkOuts, users, resetLog,
               bills, tasks, items, transactions, issued>>

\* mongoose.connection.on('error'): the handlers exist once a connect() has
\* succeeded; the error may or may not have cost the connection.
on_error ==
  /\ listeners > 0
  /\ readyState = "connected"
  /\ isConnected' = FALSE
  /\ readyState' \in {"connected", "disconnected"}
  /\ dbEvent' = "error"
  /\ UNCHANGED <<listeners, dbCall>>
  /\ UNCHANGED <<store, resp, inflight, checkIns, checkOuts, users, resetLog,
               bills, tasks, items, transactions, issued>>

\* mongoose.connection.on('disconnected'): the driver lost the connection.
on_disconnected ==
  /\ listeners > 0
  /\ readyState = "connected"
  /\ readyState' = "disconnected"
  /\ isConnected' = FALSE
  /\ dbEvent' = "disconnected"
  /\ UNCHANGED <<listeners, dbCall>>
  /\ UNCHANGED <<store, resp, inflight, checkIns, checkOuts, users, resetLog,
               bills, tasks, items, transactions, issued>>

\* mongoose.connection.on('reconnected'): the driver has the connection it
\* lost back; the handler assigns false.
on_reconnected ==
  /\ listeners > 0
  /\ readyState = "disconnected"
  /\ dbEvent \in {"disconnected", "error"}
  /\ readyState' = "connected"
  /\ isConnected' = FALSE
  /\ dbEvent' = "reconnected"
  /\ UNCHANGED <<listeners, dbCall>>
  /\ UNCHANGED <<store, resp, inflight, checkIns, checkOuts, users, resetLog,
               bills, tasks, items, transactions, issued>>

NextDb ==
  \/ \E p \in Procs : connect(p)
  \/ \E p \in Procs : connect_resolved(p)
  \/ \E p \in Procs : connect_rejected(p)
  \/ \E p \in Procs : disconnect(p)
  \/ \E p \in Procs : disconnect_resolved(p)
  \/ \E p \in Procs : disconnect_rejected(p)
  \/ on_error
  \/ on_disconnected
  \/ on_reconnected

SpecDb == Init /\ [][NextDb]_vars

\* ================================================================ claims
\* The specification's vocabulary: an active reservation is confirmed or
\* checked_in; two intervals overlap under the half-open rule.
ActiveStatuses == {"confirmed", "checked_in"}

HalfOpenOverlap(in1, out1, in2, out2) == in1 < out2 /\ out1 > in2

\* A step that handles a request of kind op (the response is primed).
Handles(op) == resp = NoResponse /\ resp'.op = op

\* The room and interval a create, update or availability request asks for,
\* given the response r that carries it: an update's are the merged values.
AskedRoom(r) ==
  IF r.op = "update" THEN OrElse(r.req.roomId, store[r.id].roomId) ELSE r.req.roomId

AskedIn(r) ==
  IF r.op = "update" THEN OrElse(r.req.checkInDate, store[r.id].checkInDate)
  ELSE r.req.checkInDate

AskedOut(r) ==
  IF r.op = "update" THEN OrElse(r.req.checkOutDate, store[r.id].checkOutDate)
  ELSE r.req.checkOutDate

ChangesRoomOrDates(req) ==
  req.roomId # 0 \/ req.checkInDate # 0 \/ req.checkOutDate # 0

\* Reservations other than `self` of the asked room, in one of `statuses`,
\* whose interval overlaps the asked one under the half-open rule.
Overlapping(r, self, statuses) ==
  {i \in Ids \ {self} :
     /\ store[i].roomId = AskedRoom(r)
     /\ store[i].status \in statuses
     /\ HalfOpenOverlap(store[i].checkInDate, store[i].checkOutDate, AskedIn(r), AskedOut(r))}

\* C1: for any room, no two reservations whose status is confirmed or
\* checked_in have overlapping half-open [checkInDate, checkOutDate).
C1_NoActiveOverlap ==
  \A i \in Ids, j \in Ids :
    (/\ i < j
     /\ store[i].roomId = store[j].roomId
     /\ store[i].status \in ActiveStatuses
     /\ store[j].status \in ActiveStatuses)
    => ~HalfOpenOverlap(store[i].checkInDate, store[i].checkOutDate,
                        store[j].checkInDate, store[j].checkOutDate)

\* Two create requests for the same room and the identical date range, both
\* answered, that were in flight together (one read while the other was
\* between its read and its save).
ConcurrentTwins(p, q) ==
  /\ p # q
  /\ inflight[p].pc = "done"
  /\ inflight[q].pc = "done"
  /\ SameRoomAndRange(inflight[p].body, inflight[q].body)
  /\ inflight[p].rival

\* C2: of two concurrent create calls for the same room and the
\* identical date range at most one succeeds, and the other observes 409.
C2_AtMostOneSucceeds ==
  \A p \in Procs, q \in Procs :
    ConcurrentTwins(p, q)
      => /\ inflight[p].code = 201 => inflight[q].code = 409
         /\ inflight[q].code = 201 => inflight[p].code = 409

\* C3: a create whose interval overlaps, under the half-open rule, a confirmed
\* reservation of the same room answers 409 and persists nothing.
C3_CreateConflictRejected ==
  [][(Handles("create") /\ Overlapping(resp', 0, {"confirmed"}) # {})
       => (resp'.code = 409 /\ store' = store)]_vars

\* C3 witness: a create was answered 409 for an interval that starts inside a
\* confirmed reservation of its room (as [03-04, 03-08) against [03-01, 03-05)).
C3_Witness ==
  /\ resp.op = "create"
  /\ resp.code = 409
  /\ \E i \in Ids :
       /\ store[i].status = "confirmed"
       /\ store[i].roomId = resp.req.roomId
       /\ store[i].checkInDate < resp.req.checkInDate
       /\ resp.req.checkInDate < store[i].checkOutDate
       /\ resp.req.checkInDate < resp.req.checkOutDate

\* C4: a create, update or availability request that only touches active
\* reservations of its room at a boundary (none overlaps it under the half-open
\* rule, one ends on its checkInDate or starts on its checkOutDate) is not
\* answered with a conflict.
C4_AdjacentAccepted ==
  [][(/\ \/ Handles("create")
         \/ Handles("availability") /\ IsValidObjectId(resp'.req.roomId)
         \/ Handles("update") /\ resp'.id \in Ids /\ ChangesRoomOrDates(resp'.req)
      /\ Now < AskedIn(resp')
      /\ AskedIn(resp') < AskedOut(resp')
      /\ Overlapping(resp', resp'.id, ActiveStatuses) = {}
      /\ \E i \in Ids \ {resp'.id} :
           /\ store[i].roomId = AskedRoom(resp')
           /\ store[i].status \in ActiveStatuses
           /\ store[i].checkInDate < store[i].checkOutDate
           /\ \/ store[i].checkOutDate = AskedIn(resp')
              \/ store[i].checkInDate = AskedOut(resp'))
       => (resp'.code # 409 /\ resp'.conflict = 0)]_vars

\* C5: confirming a pending reservation whose interval overlaps another
\* confirmed or checked_in reservation of the same room answers 409 and leaves
\* it pending.
C5_ConfirmRechecks ==
  [][(/\ Handles("confirm")
      /\ resp'.id \in Ids
      /\ store[resp'.id].status = "pending"
      /\ \E j \in Ids \ {resp'.id} :
           /\ store[j].roomId = store[resp'.id].roomId
           /\ store[j].status \in ActiveStatuses
           /\ HalfOpenOverlap(store[j].checkInDate, store[j].checkOutDate,
                              store[resp'.id].checkInDate, store[resp'.id].checkOutDate))
       => (resp'.code = 409 /\ store' = store)]_vars

\* C6: confirm on a reservation whose status is not pending answers 400
\* (only pending reservations can be confirmed) and changes nothing; a confirm
\* that succeeds found the reservation pending.
C6_ConfirmOnlyFromPending ==
  [][(Handles("confirm") /\ resp'.id \in Ids)
       => /\ store[resp'.id].status # "pending"
             => /\ resp'.code = 400
                /\ resp'.msg = "Only pending reservations can be confirmed"
                /\ store' = store
          /\ resp'.code = 200 => store[resp'.id].status = "pending"]_vars

\* C6 witness: a confirm of a cancelled reservation was rejected.
C6_Witness ==
  /\ resp.op = "confirm"
  /\ resp.msg = "Only pending reservations can be confirmed"
  /\ resp.id \in Ids
  /\ store[resp.id].status = "cancelled"

\* C7: an update that changes only the reservation's own dates (no roomId) is
\* answered 409 only when a reservation other than itself is confirmed in its
\* room; the reservation's own record never counts.
C7_NoSelfConflict ==
  [][(/\ Handles("update")
      /\ resp'.id \in Ids
      /\ resp'.req.roomId = 0
      /\ resp'.code = 409)
       => \E j \in Ids \ {resp'.id} :
            /\ store[j].roomId = store[resp'.id].roomId
            /\ store[j].status = "confirmed"]_vars

\* C7 witness: a confirmed reservation had its own checkInDate changed; the new
\* interval shares its checkOutDate with the stored one.
C7_Witness ==
  /\ resp.op = "update"
  /\ resp.code = 200
  /\ resp.req.roomId = 0
  /\ resp.req.status = ""
  /\ resp.req.checkInDate # 0
  /\ store[resp.id].status = "confirmed"

\* C8: an update of roomId, checkInDate or checkOutDate whose merged room and
\* interval overlap another confirmed or checked_in reservation answers 409
\* and leaves the stored reservation unchanged.
C8_UpdateConflictRejected ==
  [][(/\ Handles("update")
      /\ resp'.id \in Ids
      /\ ChangesRoomOrDates(resp'.req)
      /\ Overlapping(resp', resp'.id, ActiveStatuses) # {})
       => (resp'.code = 409 /\ store' = store)]_vars

\* C9: cancel on a cancelled or checked_out reservation answers 400 and
\* changes nothing; from any other status it sets the status to cancelled.
C9_CancelGuard ==
  [][(Handles("cancel") /\ resp'.id \in Ids)
       => IF store[resp'.id].status \in {"cancelled", "checked_out"}
            THEN resp'.code = 400 /\ store' = store
          ELSE resp'.code = 200 /\ store'[resp'.id].status = "cancelled"]_vars

\* C10: once a reservation is cancelled or checked_out, no operation changes
\* its status, room or dates.
C10_TerminalImmutable ==
  [][\A i \in Ids :
       store[i].status \in {"cancelled", "checked_out"} => store'[i] = store[i]]_vars

\* C11: a soft delete of a reservation that is confirmed, checked_in,
\* checked_out or no_show answers 400 (only cancelled or pending reservations
\* can be deleted) and leaves every reservation as it was; a soft delete
\* succeeds exactly when the reservation is pending or cancelled.
C11_SoftDeleteGuard ==
  [][(Handles("delete") /\ resp'.id \in Ids)
       => /\ store[resp'.id].status \in {"confirmed", "checked_in", "checked_out", "no_show"}
             => /\ resp'.code = 400
                /\ resp'.msg = "Only cancelled or pending reservations can be deleted"
                /\ store' = store
          /\ resp'.code = 200 <=> store[resp'.id].status \in {"pending", "cancelled"}]_vars

\* C11 witness: a soft delete of a checked_in reservation was rejected.
C11_Witness ==
  /\ resp.op = "delete"
  /\ resp.msg = "Only cancelled or pending reservations can be deleted"
  /\ resp.id \in Ids
  /\ store[resp.id].status = "checked_in"

\* C12: every reservation that a create persists has status pending right
\* after the create, whatever the request body carries.
C12_CreatedPending ==
  [][(Handles("create") /\ resp'.code = 201)
       => store'[resp'.id].status = "pending"]_vars

\* C13: updateStatus on an existing reservation accepts a target status
\* exactly when it is one of the six enumerated values: each of the six is
\* answered 200 and stored, any other value is rejected and nothing changes.
C13_SixStatusesAccepted ==
  [][(Handles("updateStatus") /\ resp'.id \in Ids)
       => IF resp'.req.status \in ReservationStatus
            THEN resp'.code = 200 /\ store'[resp'.id].status = resp'.req.status
          ELSE resp'.code # 200 /\ store' = store]_vars

\* The edges of the lifecycle diagram.
LifecycleEdges ==
  {<<"pending", "confirmed">>, <<"confirmed", "checked_in">>,
   <<"checked_in", "checked_out">>, <<"pending", "cancelled">>,
   <<"confirmed", "cancelled">>, <<"checked_in", "cancelled">>,
   <<"confirmed", "no_show">>}

\* C14: every change of a reservation's status, by any operation, is an edge
\* of the lifecycle diagram.
C14_OnlyLifecycleEdges ==
  [][\A i \in Ids :
       store'[i].status # store[i].status
         => <<store[i].status, store'[i].status>> \in LifecycleEdges]_vars

\* The five operations that address one reservation by its id.
ByIdOps == {"confirm", "cancel", "update", "updateStatus", "delete"}

\* The request carries no status, or one that its handler and the schema
\* accept (a status is checked before the reservation is looked up).
CarriesNoRejectedStatus(r) ==
  CASE r.op = "updateStatus" -> r.req.status \in {"pending", "confirmed", "cancelled"}
    [] r.op = "update" -> r.req.status = "" \/ r.req.status \in ReservationStatus
    [] OTHER -> TRUE

C18_CheckedInBlocks ==
  [][(/\ \/ Handles("create")
         \/ Handles("availability")
         \/ Handles("update") /\ resp'.id \in Ids /\ ChangesRoomOrDates(resp'.req)
      /\ Now < AskedIn(resp')
      /\ AskedIn(resp') < AskedOut(resp')
      /\ Overlapping(resp', resp'.id, {"checked_in"}) # {})
       => (resp'.code = 409 \/ resp'.conflict # 0)]_vars

\* Statuses that take no part in availability.
InactiveStatuses == {"pending", "cancelled", "checked_out", "no_show"}

\* The other reservations of the asked room.
OthersOfRoom(r) == {i \in Ids \ {r.id} : store[i].roomId = AskedRoom(r)}

C20_UpdateKeepsStatus ==
  [][(Handles("update") /\ resp'.id \in Ids)
       => store'[resp'.id].status = store[resp'.id].status]_vars

\* C15: creating a Check-In record for a confirmed reservation moves the
\* reservation to checked_in, and creating a Check-Out record for a check-in
\* of a checked_in reservation moves the reservation to checked_out.
C15_StayMovesReservation ==
  [][/\ (/\ Handles("createCheckIn")
         /\ resp'.code = 200
         /\ resp'.req.reservationId \in Ids
         /\ store[resp'.req.reservationId].status = "confirmed")
          => store'[resp'.req.reservationId].status = "checked_in"
     /\ (/\ Handles("createCheckOut")
         /\ resp'.code = 200
         /\ checkOuts'[resp'.id].reservationId \in Ids
         /\ store[checkOuts'[resp'.id].reservationId].status = "checked_in")
          => store'[checkOuts'[resp'.id].reservationId].status = "checked_out"]_vars

\* C17: a resetPassword request changes a user's password only when its
\* token was issued before by forgotPassword for the same email.
C17_ResetNeedsIssuedToken ==
  [][Handles("resetPassword")
       => \A i \in 1..Len(users) :
            users'[i].password # users[i].password
              => [email |-> users[i].email, resetToken |-> resp'.req.resetToken] \in resetLog]_vars

\* C21: every stored reservation has checkOutDate > checkInDate, after any
\* sequence of create and update calls.
C21_DatesOrdered ==
  \A i \in Ids : store[i].checkOutDate > store[i].checkInDate

\* C22: a cancel changes nothing but the status of the reservation it
\* addresses: every check-in, check-out and bill, and every other
\* reservation, is as it was.
C22_CancelFrame ==
  [][Handles("cancel")
       => /\ checkIns' = checkIns
          /\ checkOuts' = checkOuts
          /\ bills' = bills
          /\ Len(store') = Len(store)
          /\ \A i \in Ids :
               /\ i # resp'.id => store'[i] = store[i]
               /\ store'[i] = [store[i] EXCEPT !.status = store'[i].status]]_vars

\* C22 witness: a reservation with a check-in, a check-out and a pending bill
\* was cancelled while another reservation was stored.
C22_Witness ==
  /\ resp.op = "cancel"
  /\ resp.code = 200
  /\ Len(store) = 2
  /\ CheckInsOf(resp.id) # {}
  /\ \E i \in 1..Len(checkOuts) : checkOuts[i].reservationId = resp.id
  /\ \E i \in BillsOf(resp.id) : bills[i].status = "pending"

\* C26: a processPayment call on a bill that is paid, or that was paid
\* before (its paidDate is set) and then refunded, is rejected and leaves the
\* bill unchanged; so a bill is moved to paid at most once.
C26_PaidAtMostOnce ==
  [][(/\ Handles("processPayment")
      /\ resp'.id \in 1..Len(bills)
      /\ (bills[resp'.id].status = "paid" \/ bills[resp'.id].paidDate # 0))
       => (resp'.code # 200 /\ bills' = bills)]_vars

\* C23: every stored reservation that has a depositAmount has
\* depositAmount <= totalAmount, after any sequence of create and update
\* calls.
C23_DepositWithinTotal ==
  \A i \in Ids :
    store[i].depositAmount # NoAmount => store[i].depositAmount <= store[i].totalAmount

\* C24: at most one check-in is stored per reservation, whatever the
\* interleaving of createCheckIn requests.
C24_OneCheckInPerReservation ==
  \A i \in 1..Len(checkIns), j \in 1..Len(checkIns) :
    i # j => checkIns[i].reservationId # checkIns[j].reservationId

\* C25: once a soft delete of a reservation has succeeded, a confirm of that
\* reservation does not succeed: when the answer to a successful delete goes
\* out, confirmReservation called for the same reservation cannot answer 200.
C25_NoConfirmAfterSoftDelete ==
  (resp.op = "delete" /\ resp.code = 200) =>
    ~ENABLED (confirmReservation(resp.id) /\ resp'.code = 200)

\* C27: a housekeeping task whose status is completed keeps its status and
\* its assignee through every later operation (assignHousekeepingTask,
\* completeHousekeepingTask and updateHousekeepingTaskStatus included).
C27_CompletedIsFinal ==
  [][\A i \in 1..Len(tasks) :
       tasks[i].status = "completed" => tasks'[i] = tasks[i]]_vars

\* C28: createItem is all-or-nothing: a call answered with an error has
\* persisted no item (and no transaction); a call answered with success has
\* persisted exactly one item and one initial transaction for it, with
\* previousQuantity 0 and newQuantity the item's quantity.
C28_CreateItemAllOrNothing ==
  [][Handles("createItem") =>
       IF resp'.code = 200
         THEN /\ Len(items') = Len(items) + 1
              /\ Len(transactions') = Len(transactions) + 1
              /\ \A i \in 1..Len(items) : items'[i] = items[i]
              /\ \A i \in 1..Len(transactions) : transactions'[i] = transactions[i]
              /\ transactions'[Len(transactions')].itemId = Len(items')
              /\ transactions'[Len(transactions')].previousQuantity = 0
              /\ transactions'[Len(transactions')].newQuantity = items'[Len(items')].quantity
         ELSE items' = items /\ transactions' = transactions]_vars

\* C29: getConnectionStatus() tracks the real connection: it is true after a
\* successful connect(), false after disconnect() or an 'error' or
\* 'disconnected' event, true again after a 'reconnected' event, and a
\* disconnect() that has returned has closed the connection.
C29_StatusTracksConnection ==
  /\ dbEvent = "connect" => isConnected
  /\ dbEvent \in {"disconnect", "error", "disconnected"} => ~isConnected
  /\ dbEvent = "reconnected" => isConnected
  /\ dbEvent = "disconnect" => readyState = "disconnected"

\* The middleware has called next() in the step.
CallsNext == Handles("authMiddleware") /\ resp'.msg = "next"

\* The middleware has answered the request itself in the step.
Answers == Handles("authMiddleware") /\ resp'.msg # "next"

\* The user of a token exists and is active when the request is handled.
ActiveUser(id) == UserExists(id) /\ users[id].isActive

\* C30 as stated: authMiddleware calls next() only if the token's user
\* exists and is active at the time of the request, and otherwise answers
\* 401; login issues a token only to a user who is active at that time.
C30_AsStated ==
  [][/\ CallsNext => ActiveUser(resp'.id)
     /\ Answers => resp'.code = 401
     /\ Handles("login") =>
          IF resp'.code = 200
            THEN ActiveUser(resp'.id) /\ issued' \subseteq issued \cup {Jwt(resp'.id, k) : k \in {"secret", "fallback-secret"}}
            ELSE issued' = issued]_vars

\* C30: authMiddleware calls next() only if the token's user exists and is
\* active at the time of the request; otherwise it answers 401, or 500 when
\* JWT_SECRET is not configured; login issues a token only to a user who is
\* active at that time.
C30_DeactivatedNeverAuthenticated ==
  [][/\ CallsNext => ActiveUser(resp'.id)
     /\ Answers => \/ resp'.code = 401
                   \/ resp'.code = 500 /\ resp'.req.secret = ""
     /\ Handles("login") =>
          IF resp'.code = 200
            THEN ActiveUser(resp'.id) /\ issued' \subseteq issued \cup {Jwt(resp'.id, k) : k \in {"secret", "fallback-secret"}}
            ELSE issued' = issued]_vars

\* C30 witness: a user who was deactivated after login signed a token
\* presents that token and is answered 401.
C30_Witness ==
  /\ resp.op = "authMiddleware"
  /\ resp.code = 401
  /\ resp.msg = "Account is deactivated"
  /\ Jwt(resp.id, "secret") \in issued
  /\ UserExists(resp.id)
  /\ ~users[resp.id].isActive

====
